---------------------------- MODULE Spec2Model ----------------------------
(***************************************************************************)
(* Model of internal/provider/provider.go of terraform-provider-leaseweb:  *)
(* the provider facade (Metadata, Schema, Configure, DataSources,          *)
(* Resources) and the configuration resolution done by Configure.          *)
(*                                                                         *)
(* Strings.  The provider never looks inside a string: it tests a value    *)
(* for emptiness, copies it, and hands it to the logger, whose masking is  *)
(* about equality and containment.  A user supplied string is a sequence   *)
(* of characters; strings of different lengths over one character give     *)
(* the empty string, distinct non-empty strings, and a string properly     *)
(* contained in another.  Text that is a literal of the program (a         *)
(* diagnostic summary, a log message, a field key) is a one-element        *)
(* sequence holding the literal as a whole, so that program text and user  *)
(* text are both sequences and containment is defined on every text.       *)
(***************************************************************************)
EXTENDS Naturals, Sequences, FiniteSets, TLC

\* Longest user supplied string (config value or environment value).
MaxLen == 2

Char == "x"

Strs == { [i \in 1..n |-> Char] : n \in 0..MaxLen }

EmptyStr == << >>

\* The versions main() may hand to New: "dev" locally, "test" under
\* acceptance tests (comment on the version field).
Versions == {"dev", "test"}

-----------------------------------------------------------------------------
(* types.String of the plugin framework: null, unknown or known.           *)
(* ValueString() is "" for a null or unknown value.                        *)

Null == [state |-> "null", value |-> EmptyStr]

Unknown == [state |-> "unknown", value |-> EmptyStr]

Known(s) == [state |-> "known", value |-> s]

TriState == {Null, Unknown} \cup { Known(s) : s \in Strs }

IsNull(v) == v.state = "null"

IsUnknown(v) == v.state = "unknown"

ValueString(v) == IF v.state = "known" THEN v.value ELSE EmptyStr

\* var config leasewebProviderModel: the zero value of every field is null.
ZeroModel == [Host |-> Null, Token |-> Null, Scheme |-> Null]

leasewebProviderModel == [Host : TriState, Token : TriState, Scheme : TriState]

-----------------------------------------------------------------------------
(* The process environment.  A variable is unset, << >>, or set to a       *)
(* string s, <<s>>; os.Getenv gives "" for an unset variable.              *)

EnvNames == {"LEASEWEB_HOST", "LEASEWEB_SCHEME", "LEASEWEB_TOKEN"}

Unset == << >>

EnvSet(s) == <<s>>

EnvVals == {Unset} \cup { EnvSet(s) : s \in Strs }

Getenv(e, name) == IF e[name] = Unset THEN EmptyStr ELSE e[name][1]

-----------------------------------------------------------------------------
(* Diagnostics. *)

\* The error req.Config.Get reports when the configuration does not decode
\* into leasewebProviderModel.
ConversionError ==
    [path |-> "", severity |-> "error",
     summary |-> <<"Value Conversion Error">>,
     detail |-> <<"An unexpected error was encountered trying to build a value.">>]

GetDiagnostics == { << >>, <<ConversionError>> }

AddAttributeError(diags, p, summary, detail) ==
    Append(diags, [path |-> p, severity |-> "error",
                   summary |-> summary, detail |-> detail])

HasError(diags) == \E i \in 1..Len(diags) : diags[i].severity = "error"

UnknownTokenSummary == <<"Unknown Leaseweb API token">>

UnknownTokenDetail ==
    <<"The provider cannot create the Leaseweb API client as there is an unknown configuration value for the Leaseweb API token. Either target apply the source of the value first, set the value statically in the configuration, or use the LEASEWEB_TOKEN environment variable.">>

MissingTokenSummary == <<"Missing Leaseweb API token">>

MissingTokenDetail ==
    <<"The provider cannot create the Leaseweb API client as there is a missing or empty value for the Leaseweb API token. Set the token value in the configuration or use the LEASEWEB_TOKEN environment variable. If either is already set, ensure the value is not empty.">>

\* if config.Token.IsUnknown() { AddAttributeError(path.Root("token"), ...) }
CheckUnknownToken(config, diags) ==
    IF IsUnknown(config.Token)
    THEN AddAttributeError(diags, "token", UnknownTokenSummary, UnknownTokenDetail)
    ELSE diags

\* Mutant: the missing token is reported as a warning, not an error.
CheckMissingTokenAsWarning(token, diags) ==
    IF token = EmptyStr
    THEN Append(diags, [path |-> "token", severity |-> "warning",
                        summary |-> MissingTokenSummary, detail |-> MissingTokenDetail])
    ELSE diags

\* Mutant: a token that is present is echoed in a warning.
CheckMissingTokenEchoesToken(token, diags) ==
    IF token = EmptyStr
    THEN AddAttributeError(diags, "token", MissingTokenSummary, MissingTokenDetail)
    ELSE Append(diags, [path |-> "token", severity |-> "warning",
                        summary |-> <<"Leaseweb API token">>,
                        detail |-> <<"Using token ">> \o token])

\* if token == "" { AddAttributeError(path.Root("token"), ...) }
CheckMissingToken(token, diags) ==
    IF token = EmptyStr
    THEN AddAttributeError(diags, "token", MissingTokenSummary, MissingTokenDetail)
    ELSE diags

-----------------------------------------------------------------------------
(* Merging the environment with the configuration. *)

\* Mutant: the environment variable wins over the config value.
MergeHostEnvFirst(config, e) ==
    IF Getenv(e, "LEASEWEB_HOST") # EmptyStr THEN Getenv(e, "LEASEWEB_HOST")
    ELSE ValueString(config.Host)

\* Mutant: only a known config value replaces the environment variable.
MergeHostKnownOnly(config, e) ==
    IF config.Host.state = "known" THEN ValueString(config.Host)
    ELSE Getenv(e, "LEASEWEB_HOST")

\* host := os.Getenv("LEASEWEB_HOST"); if !config.Host.IsNull() { host = ... }
MergeHost(config, e) ==
    IF ~IsNull(config.Host) THEN ValueString(config.Host)
    ELSE Getenv(e, "LEASEWEB_HOST")

MergeScheme(config, e) ==
    IF ~IsNull(config.Scheme) THEN ValueString(config.Scheme)
    ELSE Getenv(e, "LEASEWEB_SCHEME")

\* Mutant: the environment variable wins over the config value.
MergeTokenEnvFirst(config, e) ==
    IF Getenv(e, "LEASEWEB_TOKEN") # EmptyStr THEN Getenv(e, "LEASEWEB_TOKEN")
    ELSE ValueString(config.Token)

MergeToken(config, e) ==
    IF ~IsNull(config.Token) THEN ValueString(config.Token)
    ELSE Getenv(e, "LEASEWEB_TOKEN")

\* The variables lines 104-106 read.
EnvRead == {"LEASEWEB_HOST", "LEASEWEB_SCHEME", "LEASEWEB_TOKEN"}

-----------------------------------------------------------------------------
(* client.Optional: a nil pointer is << >>, a pointer to s is <<s>>. *)

NilPtr == << >>

PtrTo(s) == <<s>>

OptionalHost(host) == IF host # EmptyStr THEN PtrTo(host) ELSE NilPtr

OptionalScheme(scheme) == IF scheme # EmptyStr THEN PtrTo(scheme) ELSE NilPtr

BuildOptional(host, scheme) ==
    [Host |-> OptionalHost(host), Scheme |-> OptionalScheme(scheme)]

-----------------------------------------------------------------------------
(* tflog.  A logging context carries the fields set on it and the keys     *)
(* whose values are masked.  MaskFieldValuesWithFieldKeys masks by key:    *)
(* when a record is emitted, the value of every field whose key is one of  *)
(* the masked keys is replaced by "***"; the message and the values of     *)
(* the other fields are emitted as they are.                               *)

EmptyContext == [fields |-> << >>, masked |-> {}]

\* Fields are kept as a sequence of <<key, value>> pairs, a later pair for
\* a key replacing an earlier one.
SetField(ctx, key, value) ==
    [ctx EXCEPT !.fields =
        Append(SelectSeq(ctx.fields, LAMBDA f : f[1] # key), <<key, value>>)]

MaskFieldValuesWithFieldKeys(ctx, key) ==
    [ctx EXCEPT !.masked = ctx.masked \cup {key}]

MaskText == <<"***">>

RenderField(ctx, f) == IF f[1] \in ctx.masked THEN <<f[1], MaskText>> ELSE f

\* tflog.Info(ctx, msg, additionalFields): the record handed to the sink.
Info(ctx, msg, additional) ==
    LET all == ctx.fields \o additional
    IN  [msg |-> msg,
         fields |-> [i \in 1..Len(all) |-> RenderField(ctx, all[i])]]

\* Lines 134-137: the context Configure logs under.
LogContext(host, scheme, token) ==
    LET c1 == SetField(EmptyContext, "leaseweb_host", host)
        c2 == SetField(c1, "leaseweb_scheme", scheme)
        c3 == SetField(c2, "leaseweb_token", token)
    IN  MaskFieldValuesWithFieldKeys(c3, "leaseweb_token")

ConfiguredMessage == <<"Configured Leaseweb client">>

\* Lines 152-156.
LogConfigured(ctx) == Info(ctx, ConfiguredMessage, << <<"success", <<"true">> >> >>)

-----------------------------------------------------------------------------
(* client.NewClient(token, optional, version): the handle is opaque to the *)
(* provider; it is modelled as the arguments it was built from.            *)

NewClient(token, optional, version) ==
    [token |-> token, optional |-> optional, version |-> version]

\* A nil interface value in DataSourceData / ResourceData is << >>, a
\* client handle h is <<h>>.
Nil == << >>

-----------------------------------------------------------------------------
(* Configure, as a function of the request, the environment and the        *)
(* provider's version.  The result holds the response (Diagnostics,        *)
(* DataSourceData, ResourceData) and what the call did on the way: the     *)
(* environment variables it read, the calls of client.NewClient, the log   *)
(* records it emitted.                                                     *)

Aborted(config, diags, reads) ==
    [config |-> config, Diagnostics |-> diags, envReads |-> reads,
     clientCalls |-> << >>, logs |-> << >>,
     DataSourceData |-> Nil, ResourceData |-> Nil]

\* Mutant: resp.ResourceData is not set.
PublishDataSourceDataOnly(config, diags, host, scheme, token, ver) ==
    LET ctx == LogContext(host, scheme, token)
        optional == BuildOptional(host, scheme)
        coreClient == NewClient(token, optional, ver)
    IN  [config |-> config, Diagnostics |-> diags, envReads |-> EnvRead,
         clientCalls |-> << [token |-> token, optional |-> optional, version |-> ver] >>,
         logs |-> << LogConfigured(ctx) >>,
         DataSourceData |-> <<coreClient>>, ResourceData |-> Nil]

\* Lines 134-156: the part of Configure after the last HasError check.
Publish(config, diags, host, scheme, token, ver) ==
    LET ctx == LogContext(host, scheme, token)
        optional == BuildOptional(host, scheme)
        coreClient == NewClient(token, optional, ver)
    IN  [config |-> config, Diagnostics |-> diags, envReads |-> EnvRead,
         clientCalls |-> << [token |-> token, optional |-> optional, version |-> ver] >>,
         logs |-> << LogConfigured(ctx) >>,
         DataSourceData |-> <<coreClient>>, ResourceData |-> <<coreClient>>]

\* Lines 104-132: merge, then the missing token check.
Resolve(config, diags, e, ver) ==
    LET host == MergeHost(config, e)
        scheme == MergeScheme(config, e)
        token == MergeToken(config, e)
        d == CheckMissingToken(token, diags)
    IN  IF HasError(d) THEN Aborted(config, d, EnvRead)
        ELSE Publish(config, d, host, scheme, token, ver)

\* Mutant: no return after the unknown token check.
ConfigureResultNoReturn(reqConfig, getDiags, e, ver) ==
    IF HasError(getDiags) THEN Aborted(ZeroModel, getDiags, {})
    ELSE Resolve(reqConfig, CheckUnknownToken(reqConfig, getDiags), e, ver)

\* Lines 84-102: decode, then the unknown token check.
ConfigureResult(reqConfig, getDiags, e, ver) ==
    IF HasError(getDiags) THEN Aborted(ZeroModel, getDiags, {})
    ELSE LET d == CheckUnknownToken(reqConfig, getDiags)
         IN  IF HasError(d) THEN Aborted(reqConfig, d, {})
             ELSE Resolve(reqConfig, d, e, ver)

-----------------------------------------------------------------------------
(* The registries: the constructors DataSources and Resources return, in   *)
(* the order of the source.                                                *)

DataSourcesList ==
    << "publiccloud.NewInstancesDataSource",
       "publiccloud.NewCredentialDataSource",
       "dedicatedserver.NewServerDataSource",
       "dedicatedserver.NewServersDataSource",
       "dedicatedserver.NewControlPanelsDataSource",
       "dedicatedserver.NewOperatingSystemsDataSource",
       "dedicatedserver.NewCredentialDataSource",
       "publiccloud.NewImagesDataSource",
       "publiccloud.NewLoadBalancersDataSource",
       "publiccloud.NewLoadBalancerListenersDataSource",
       "publiccloud.NewTargetGroupsDataSource",
       "publiccloud.NewISOsDataSource",
       "dns.NewResourceRecordSetsDataSource",
       "ipmgmt.NewIPsDataSource",
       "ipmgmt.NewNullRouteHistoryDataSource" >>

ResourcesList ==
    << "publiccloud.NewInstanceResource",
       "publiccloud.NewCredentialResource",
       "dedicatedserver.NewServerResource",
       "dedicatedserver.NewCredentialResource",
       "dedicatedserver.NewNotificationSettingDatatrafficResource",
       "dedicatedserver.NewNotificationSettingBandwidthResource",
       "dedicatedserver.NewInstallationResource",
       "publiccloud.NewImageResource",
       "publiccloud.NewLoadBalancerResource",
       "publiccloud.NewLoadBalancerListenerResource",
       "publiccloud.NewTargetGroupResource",
       "publiccloud.NewIPResource",
       "publiccloud.NewInstanceIsoResource",
       "dns.NewResourceRecordSetsResource",
       "ipmgmt.NewIPResource",
       "ipmgmt.NewNullRouteResource" >>

\* resp.Schema of Schema.
SchemaAttributes ==
    [host   |-> [Optional |-> TRUE, Sensitive |-> FALSE],
     scheme |-> [Optional |-> TRUE, Sensitive |-> FALSE],
     token  |-> [Optional |-> TRUE, Sensitive |-> TRUE]]

-----------------------------------------------------------------------------
(* The provider as the host drives it. *)

VARIABLES
    version,         \* leasewebProvider.version
    env,             \* the process environment
    phase,           \* Uninitialized, then how the latest Configure ended:
                     \* Configured or ConfigurationFailed
    config,          \* the latest Configure's local config, as decoded
    Diagnostics,     \* its ConfigureResponse.Diagnostics
    DataSourceData,  \* its ConfigureResponse.DataSourceData
    ResourceData,    \* its ConfigureResponse.ResourceData
    envReads,        \* the environment variables it read
    clientCalls,     \* its calls of client.NewClient, in order
    logs,            \* the log records it emitted, in order
    resp             \* the response to the host's latest query

vars == << version, env, phase, config, Diagnostics, DataSourceData,
           ResourceData, envReads, clientCalls, logs, resp >>

provider == << version, env, phase, config, Diagnostics, DataSourceData,
               ResourceData, envReads, clientCalls, logs >>

NoResponse == [call |-> "none", at |-> "Uninitialized", body |-> << >>]

\* New(version), before the host's first call.
Init ==
    /\ version \in Versions
    /\ env \in [EnvNames -> EnvVals]
    /\ phase = "Uninitialized"
    /\ config = ZeroModel
    /\ Diagnostics = << >>
    /\ DataSourceData = Nil
    /\ ResourceData = Nil
    /\ envReads = {}
    /\ clientCalls = << >>
    /\ logs = << >>
    /\ resp = NoResponse

\* Mutant: the assignment of resp.Version written the other way round.
MetadataSetsVersion ==
    /\ resp' = [call |-> "Metadata", at |-> phase,
                body |-> [TypeName |-> "leaseweb", Version |-> version]]
    /\ version' = "leaseweb"
    /\ UNCHANGED << env, phase, config, Diagnostics, DataSourceData,
                    ResourceData, envReads, clientCalls, logs >>

Metadata ==
    /\ resp' = [call |-> "Metadata", at |-> phase,
                body |-> [TypeName |-> "leaseweb", Version |-> version]]
    /\ UNCHANGED provider

Schema ==
    /\ resp' = [call |-> "Schema", at |-> phase, body |-> SchemaAttributes]
    /\ UNCHANGED provider

\* The host calls Configure once in the life of a provider process, with a
\* fresh response; envReads, clientCalls and logs are what the call did.
Configure ==
    /\ phase = "Uninitialized"
    /\ \E reqConfig \in leasewebProviderModel, getDiags \in GetDiagnostics :
          LET r == ConfigureResult(reqConfig, getDiags, env, version)
          IN  /\ config' = r.config
              /\ Diagnostics' = r.Diagnostics
              /\ DataSourceData' = r.DataSourceData
              /\ ResourceData' = r.ResourceData
              /\ envReads' = r.envReads
              /\ clientCalls' = r.clientCalls
              /\ logs' = r.logs
              /\ phase' = IF HasError(r.Diagnostics) THEN "ConfigurationFailed"
                          ELSE "Configured"
    /\ UNCHANGED << version, env, resp >>

\* Mutant: the data sources are listed only once a client is there.
DataSourcesWhenConfigured ==
    /\ resp' = [call |-> "DataSources", at |-> phase,
                body |-> IF DataSourceData # Nil THEN DataSourcesList ELSE << >>]
    /\ UNCHANGED provider

DataSources ==
    /\ resp' = [call |-> "DataSources", at |-> phase, body |-> DataSourcesList]
    /\ UNCHANGED provider

Resources ==
    /\ resp' = [call |-> "Resources", at |-> phase, body |-> ResourcesList]
    /\ UNCHANGED provider

Next == Metadata \/ Schema \/ Configure \/ DataSources \/ Resources

Spec == Init /\ [][Next]_vars

\* Configure alone, over every request and environment: for the properties
\* that compare one Configure call with the calls on other inputs.
ConfigureSpec == Init /\ [][Configure]_vars

-----------------------------------------------------------------------------
(* What the properties below speak about. *)

\* Text containment: needle occurs in hay as a contiguous run.
Contains(hay, needle) ==
    \E i \in 0..Len(hay) :
        /\ i + Len(needle) <= Len(hay)
        /\ \A j \in 1..Len(needle) : hay[i + j] = needle[j]

\* The serialized text of a log record holds its message and, per field,
\* the key and the value.
RecordContains(rec, s) ==
    \/ Contains(rec.msg, s)
    \/ \E i \in 1..Len(rec.fields) :
          Contains(<<rec.fields[i][1]>>, s) \/ Contains(rec.fields[i][2], s)

Called == phase # "Uninitialized"

\* Configure got past decoding the request (lines 85-89).
Decoded == Called /\ ~(Len(Diagnostics) >= 1 /\ Diagnostics[1] = ConversionError)

ErrorCount == Cardinality({ i \in 1..Len(Diagnostics) : Diagnostics[i].severity = "error" })

OneTokenError ==
    /\ Len(Diagnostics) = 1
    /\ Diagnostics[1].severity = "error"
    /\ Diagnostics[1].path = "token"

NothingPublished ==
    /\ clientCalls = << >>
    /\ DataSourceData = Nil
    /\ ResourceData = Nil

\* An environment variable that is unset or empty counts as absent.
EnvPresent(name) == env[name] # Unset /\ env[name][1] # EmptyStr

ConfigPresent(v) == v.state = "known" /\ v.value # EmptyStr

\* The merged token in the words of the specification: the config value if
\* the config sets one, otherwise the value of LEASEWEB_TOKEN.
MergedToken(cfgToken, envToken) ==
    IF cfgToken.state = "known" THEN cfgToken.value
    ELSE IF envToken = Unset THEN EmptyStr ELSE envToken[1]

\* C1: an Unknown config token gives exactly one error diagnostic, on path
\* token; no environment variable is read, nothing is resolved, logged or
\* published, and client.NewClient is not called, whatever host, scheme and
\* the environment hold.
C1_UnknownTokenStops ==
    (Decoded /\ IsUnknown(config.Token)) =>
        /\ OneTokenError
        /\ Diagnostics[1].summary = UnknownTokenSummary
        /\ envReads = {}
        /\ logs = << >>
        /\ NothingPublished
        /\ phase = "ConfigurationFailed"

C1_Witness ==
    /\ Decoded
    /\ IsUnknown(config.Token)
    /\ ConfigPresent(config.Host)
    /\ IsUnknown(config.Scheme)
    /\ \A n \in EnvNames : EnvPresent(n)

\* C2: a token that is not Unknown and is empty after the merge gives exactly
\* one error diagnostic, on path token, and no client handle.
C2_MissingTokenStops ==
    (Decoded /\ ~IsUnknown(config.Token)
             /\ MergedToken(config.Token, env["LEASEWEB_TOKEN"]) = EmptyStr) =>
        /\ OneTokenError
        /\ Diagnostics[1].summary = MissingTokenSummary
        /\ NothingPublished
        /\ phase = "ConfigurationFailed"

C2_Witness ==
    /\ Decoded
    /\ config.Token = Known(EmptyStr)
    /\ EnvPresent("LEASEWEB_TOKEN")
    /\ ConfigPresent(config.Host)

\* The override the specification asks for, for a config value that is
\* present (known, not empty) or absent (null).
OverrideAsSpecified(cfgField, name, override) ==
    /\ ConfigPresent(cfgField) => override = PtrTo(cfgField.value)
    /\ (IsNull(cfgField) /\ EnvPresent(name)) => override = PtrTo(env[name][1])
    /\ (IsNull(cfgField) /\ ~EnvPresent(name)) => override = NilPtr
    /\ override # PtrTo(EmptyStr)

\* C3: the host and scheme overrides handed to client.NewClient are the
\* config value if present, else the environment value if present (an empty
\* one counting as absent), else absent; never a present empty string.
C3_OverridePrecedence ==
    (phase = "Configured") =>
        /\ Len(clientCalls) = 1
        /\ OverrideAsSpecified(config.Host, "LEASEWEB_HOST", clientCalls[1].optional.Host)
        /\ OverrideAsSpecified(config.Scheme, "LEASEWEB_SCHEME", clientCalls[1].optional.Scheme)

C3_Witness ==
    /\ phase = "Configured"
    /\ ConfigPresent(config.Host)
    /\ EnvPresent("LEASEWEB_HOST")
    /\ env["LEASEWEB_HOST"][1] # config.Host.value
    /\ IsNull(config.Scheme)
    /\ EnvPresent("LEASEWEB_SCHEME")

\* C4: the token handed to client.NewClient is the known config token if the
\* config sets one, even with LEASEWEB_TOKEN set, otherwise LEASEWEB_TOKEN;
\* with no config values and only LEASEWEB_TOKEN set (not empty) Configure
\* succeeds with that token and no host or scheme override.
C4_TokenPrecedence ==
    /\ (phase = "Configured") =>
          /\ Len(clientCalls) = 1
          /\ clientCalls[1].token = MergedToken(config.Token, env["LEASEWEB_TOKEN"])
    /\ (Decoded /\ config = ZeroModel /\ EnvPresent("LEASEWEB_TOKEN")
                /\ env["LEASEWEB_HOST"] = Unset /\ env["LEASEWEB_SCHEME"] = Unset) =>
          /\ phase = "Configured"
          /\ Diagnostics = << >>
          /\ clientCalls = << [token |-> env["LEASEWEB_TOKEN"][1],
                               optional |-> [Host |-> NilPtr, Scheme |-> NilPtr],
                               version |-> version] >>

C4_Witness ==
    /\ phase = "Configured"
    /\ ConfigPresent(config.Token)
    /\ EnvPresent("LEASEWEB_TOKEN")
    /\ env["LEASEWEB_TOKEN"][1] # config.Token.value

\* C5: when Configure has returned, a client handle is published exactly when
\* no error diagnostic was recorded: with an error both outputs are nil and
\* client.NewClient was not called; without one it was called once, with a
\* token that is not empty, and both outputs hold the handle it returned.
C5_HandleIffNoError ==
    Called =>
        /\ (ErrorCount > 0) => NothingPublished
        /\ (ErrorCount = 0) =>
              /\ Len(clientCalls) = 1
              /\ clientCalls[1].token # EmptyStr
              /\ clientCalls[1].version = version
              /\ DataSourceData = << NewClient(clientCalls[1].token,
                                               clientCalls[1].optional,
                                               clientCalls[1].version) >>
              /\ ResourceData = DataSourceData

C5_Witness ==
    /\ phase = "Configured"
    /\ DataSourceData # Nil
    /\ ResourceData = DataSourceData
    /\ ConfigPresent(config.Host)

\* C6: once masking is installed for the resolved token, no log record holds
\* the token anywhere in its text: not in the token field, not in another
\* field such as host or scheme, not in the message.
C6_NoTokenInLogs ==
    (phase = "Configured") =>
        \A i \in 1..Len(logs) : ~RecordContains(logs[i], clientCalls[1].token)

\* The tokens a Configure call could see: the known config token and
\* LEASEWEB_TOKEN.
TokenValues ==
    (IF config.Token.state = "known" THEN {config.Token.value} ELSE {})
        \cup (IF env["LEASEWEB_TOKEN"] = Unset THEN {} ELSE {env["LEASEWEB_TOKEN"][1]})

\* How a call ends, in the words of the specification.
Outcome(cfgToken, envToken) ==
    IF IsUnknown(cfgToken) THEN "unknown token"
    ELSE IF MergedToken(cfgToken, envToken) = EmptyStr THEN "missing token"
    ELSE "success"

\* C7: no diagnostic of Configure holds the config token or LEASEWEB_TOKEN in
\* its summary or detail, and a run that differs from this one only in the
\* token (in the config or the environment) and ends the same way gives the
\* same diagnostics.
C7_NoTokenInDiagnostics ==
    /\ Called =>
          \A i \in 1..Len(Diagnostics) : \A t \in TokenValues \ {EmptyStr} :
              /\ ~Contains(Diagnostics[i].summary, t)
              /\ ~Contains(Diagnostics[i].detail, t)
    /\ Decoded =>
          \A t2 \in TriState, e2 \in EnvVals :
              (Outcome(t2, e2) = Outcome(config.Token, env["LEASEWEB_TOKEN"])) =>
                  ConfigureResult([config EXCEPT !.Token = t2], << >>,
                                  [env EXCEPT !["LEASEWEB_TOKEN"] = e2],
                                  version).Diagnostics = Diagnostics

C7_Witness ==
    /\ Decoded
    /\ IsUnknown(config.Token)
    /\ EnvPresent("LEASEWEB_TOKEN")
    /\ Len(Diagnostics) = 1

\* C8: DataSources returns the same list on every call, and so does
\* Resources: a call answers what the previous call of the same query
\* answered, whether Configure ran in between or not and however it ended.
C8_SameListsEveryCall ==
    [][(resp.call \in {"DataSources", "Resources"} /\ resp'.call = resp.call)
          => resp'.body = resp.body]_vars

\* The latest answer was given before Configure, which has failed since:
\* the next call is held against it.
C8_Witness ==
    /\ resp.call = "DataSources"
    /\ resp.at = "Uninitialized"
    /\ resp.body = DataSourcesList
    /\ phase = "ConfigurationFailed"

\* C9: Metadata, Schema, DataSources and Resources (the steps that answer
\* a query) leave the provider's version and the client handle Configure
\* published as they are, so a query answered once the provider is
\* Configured finds the handle Configure published.
C9_QueriesChangeNothing ==
    [][(resp' # resp) =>
          /\ version' = version
          /\ phase' = phase
          /\ DataSourceData' = DataSourceData
          /\ ResourceData' = ResourceData
          /\ (phase = "Configured") => (DataSourceData' # Nil /\ ResourceData' = DataSourceData')]_vars

C9_Witness ==
    /\ phase = "Configured"
    /\ DataSourceData # Nil
    /\ resp.call = "Resources"
    /\ resp.at = "Configured"

\* C10: with a resolvable token, a config host (or scheme) that is Unknown or
\* the empty string raises no diagnostic, counts as the empty string and
\* gives no override, also when LEASEWEB_HOST (LEASEWEB_SCHEME) is set: the
\* environment variable is not fallen through to.
SuppressesEnv(cfgField, key, override) ==
    (IsUnknown(cfgField) \/ cfgField = Known(EmptyStr)) =>
        /\ override = NilPtr
        /\ \E i \in 1..Len(logs[1].fields) : logs[1].fields[i] = <<key, EmptyStr>>

C10_UnknownHostSuppressesEnv ==
    (Decoded /\ Outcome(config.Token, env["LEASEWEB_TOKEN"]) = "success") =>
        /\ Diagnostics = << >>
        /\ Len(clientCalls) = 1
        /\ Len(logs) = 1
        /\ SuppressesEnv(config.Host, "leaseweb_host", clientCalls[1].optional.Host)
        /\ SuppressesEnv(config.Scheme, "leaseweb_scheme", clientCalls[1].optional.Scheme)

C10_Witness ==
    /\ phase = "Configured"
    /\ IsUnknown(config.Host)
    /\ EnvPresent("LEASEWEB_HOST")
    /\ config.Scheme = Known(EmptyStr)
    /\ EnvPresent("LEASEWEB_SCHEME")

=============================================================================
